---- MODULE Spec2Model ----
(***************************************************************************)
(* The quote-list manager of dom-manipulation/script.js as a state         *)
(* machine.  The file holds two versions of the script (lines 1-305 and    *)
(* lines 306-574); they differ in how a sync cycle handles a failed fetch, *)
(* and the variable `script` says which of the two the page runs.          *)
(*                                                                         *)
(* Strings are sequences of one-character strings, so that trim() and the  *)
(* default sort() are computed; the texts of the two default quotes, which *)
(* nothing takes apart, are held in one piece.  Other JavaScript values    *)
(* are tagged.                                                             *)
(* An object is a function from its own keys to values; reading a key it   *)
(* does not have gives undefined.                                          *)
(***************************************************************************)
EXTENDS Integers, Sequences, FiniteSets, TLC

VARIABLES
    script,          \* 1: the script of lines 1-305, 2: the one of lines 306-574
    loaded,          \* DOMContentLoaded has fired and init has run
    quotes,          \* the global list `quotes`
    localStorage,    \* the two keys of the browser's local storage
    categoryFilter,  \* the <select>: its options and its selected value
    quoteContainer,  \* what the page shows: a notice or a list of cards
    syncStatus,      \* the status line: textContent and className
    timeoutPending,  \* a timer of setSyncStatus has yet to expire
    alertMsg,        \* the alert the last handler raised, "" if none
    fetching,        \* sync cycles suspended at `await fetch(...)`
    parsing,         \* sync cycles suspended at `await response.json()`
    mutated,         \* history: quotes was pushed to since init loaded it
    mergeInserted    \* history: the indices of quotes the merge step pushed

vars == <<script, loaded, quotes, localStorage, categoryFilter, quoteContainer,
          syncStatus, timeoutPending, alertMsg, fetching, parsing, mutated,
          mergeInserted>>

---------------------------------------------------------------------------
(* Bounds of the model *)

MaxQuotes == 4
MaxInFlight == 2
MaxResponse == 2
MaxFile == 2

---------------------------------------------------------------------------
(* JavaScript values *)

Str(s) == [t |-> "string", v |-> s]
Undefined == [t |-> "undefined", v |-> <<>>]
Null == [t |-> "null", v |-> <<>>]
NumberOne == [t |-> "number", v |-> <<"1">>]

IsString(x) == x.t = "string"

\* ToBoolean on the values above: the empty string, undefined and null are
\* falsy; the number 1 and non-empty strings are truthy.
Truthy(x) == (x.t = "string" /\ x.v # <<>>) \/ x.t = "number"

\* A null entry of an uploaded array is the value Null; every other entry is
\* an object.
IsObject(x) == "t" \notin DOMAIN x

\* o.k
Get(o, k) == IF k \in DOMAIN o THEN o[k] ELSE Undefined

StrictEqIgnoreCase(a, b) ==
    LET Lower(c) == IF c = "A" THEN "a" ELSE IF c = "B" THEN "b" ELSE c
        Low(x) == [x EXCEPT !.v = [i \in DOMAIN x.v |-> Lower(x.v[i])]]
    IN Low(a) = Low(b)

\* a === b
StrictEq(a, b) == a = b

\* String.prototype.trim
IsWhitespace(c) == c \in {" ", "\t", "\n", "\r"}

RECURSIVE TrimStart(_)
TrimStart(s) ==
    IF s # <<>> /\ IsWhitespace(Head(s)) THEN TrimStart(Tail(s)) ELSE s

RECURSIVE TrimEnd(_)
TrimEnd(s) ==
    IF s # <<>> /\ IsWhitespace(s[Len(s)])
    THEN TrimEnd(SubSeq(s, 1, Len(s) - 1))
    ELSE s

Trim(s) == TrimEnd(TrimStart(s))

\* The space, digits and letters in the order of their UTF-16 code units:
\* the order Array.prototype.sort compares strings by.
CodeUnits ==
    <<" ", "0", "1", "2", "3", "4", "5", "6", "7", "8", "9", "A", "B", "C",
    "D", "E", "F", "G", "H", "I", "J", "K", "L", "M", "N", "O", "P", "Q",
    "R", "S", "T", "U", "V", "W", "X", "Y", "Z", "a", "b", "c", "d", "e",
    "f", "g", "h", "i", "j", "k", "l", "m", "n", "o", "p", "q", "r", "s",
    "t", "u", "v", "w", "x", "y", "z">>

\* c.charCodeAt(0), as the position of c in that order.
CodeUnitOf ==
    [c \in {CodeUnits[i] : i \in DOMAIN CodeUnits} |->
        CHOOSE i \in DOMAIN CodeUnits : CodeUnits[i] = c]

CodeUnit(c) == CodeUnitOf[c]

RECURSIVE StringLess(_, _)
StringLess(a, b) ==
    IF b = <<>> THEN FALSE
    ELSE IF a = <<>> THEN TRUE
    ELSE IF Head(a) = Head(b) THEN StringLess(Tail(a), Tail(b))
    ELSE CodeUnit(Head(a)) < CodeUnit(Head(b))

\* [...set].sort() on a set of strings
RECURSIVE SortStrings(_)
SortStrings(S) ==
    IF S = {} THEN <<>>
    ELSE LET m == CHOOSE x \in S : \A y \in S \ {x} : StringLess(x, y)
         IN <<m>> \o SortStrings(S \ {m})

---------------------------------------------------------------------------
(* String literals of the script *)

All == <<"a", "l", "l">>
General == <<"G", "e", "n", "e", "r", "a", "l">>
Server == <<"S", "e", "r", "v", "e", "r">>
Motivational == <<"M", "o", "t", "i", "v", "a", "t", "i", "o", "n", "a", "l">>
Life == <<"L", "i", "f", "e">>

DefaultText1 == <<"The only way to do great work is to love what you do.">>

DefaultText2 == <<"Life is what happens when you're busy making other plans.">>

getDefaultQuotes ==
    << [text |-> Str(DefaultText1), category |-> Str(Motivational)],
       [text |-> Str(DefaultText2), category |-> Str(Life)] >>

SyncingMessage == "Syncing with server..."
NoNewMessage == "Sync complete: No new quotes from server."
AddedMessage(n) ==
    "Sync complete: " \o ToString(n) \o " new quote(s) added from server."
FailedMessage(errMessage) == "Sync failed: " \o errMessage
EmptyTextAlert == "Please enter a quote text."
NoCategoryQuotes == "No quotes available for this category."
NoQuotes == "No quotes available."

---------------------------------------------------------------------------
(* JSON.  A JSON text is held as the value it denotes, with a flag for a  *)
(* text that does not parse and one for a document that is no array.      *)

\* The own properties JSON.stringify writes: those whose value is not
\* undefined.
StringifyObject(o) == [k \in {j \in DOMAIN o : o[j] # Undefined} |-> o[k]]

JsonStringify(list) ==
    [valid |-> TRUE, array |-> TRUE,
     items |-> [i \in 1..Len(list) |-> StringifyObject(list[i])]]

InvalidJson == [valid |-> FALSE, array |-> FALSE, items |-> <<>>]
NonArrayJson == [valid |-> TRUE, array |-> FALSE, items |-> <<>>]
ArrayJson(items) == [valid |-> TRUE, array |-> TRUE, items |-> items]

---------------------------------------------------------------------------
(* The functions of the script.  Each takes the page's state `s`, a record *)
(* of the globals and DOM nodes it reads and writes, and gives the state   *)
(* it leaves.                                                              *)

State ==
    [quotes |-> quotes, localStorage |-> localStorage,
     categoryFilter |-> categoryFilter, quoteContainer |-> quoteContainer,
     syncStatus |-> syncStatus, timeoutPending |-> timeoutPending,
     alertMsg |-> ""]

\* The page as the browser builds it, before any script has run; local
\* storage is what the previous sessions left.
FreshPage(storage) ==
    [quotes |-> <<>>, localStorage |-> storage,
     categoryFilter |-> [options |-> <<>>, value |-> <<>>],
     quoteContainer |-> [notice |-> "", cards |-> <<>>],
     syncStatus |-> [textContent |-> "", className |-> ""],
     timeoutPending |-> FALSE, alertMsg |-> ""]

EmptyStorage ==
    [dynamicQuotes |-> [present |-> FALSE, text |-> InvalidJson],
     lastSelectedCategory |-> [present |-> FALSE, value |-> <<>>]]

saveQuotesNothing(s) == s

saveQuotes(s) ==
    [s EXCEPT !.localStorage.dynamicQuotes =
                  [present |-> TRUE, text |-> JsonStringify(s.quotes)]]

loadQuotes(s) ==
    LET stored == s.localStorage.dynamicQuotes
    IN [s EXCEPT !.quotes =
            IF stored.present
            THEN IF stored.text.valid
                 THEN stored.text.items
                 ELSE getDefaultQuotes
            ELSE getDefaultQuotes]

saveLastFilter(s, category) ==
    [s EXCEPT !.localStorage.lastSelectedCategory =
                  [present |-> TRUE, value |-> category]]

\* localStorage.getItem(FILTER_STORAGE_KEY) || 'all': a missing key gives
\* null and a stored empty string is falsy.
loadLastFilter(s) ==
    LET item == s.localStorage.lastSelectedCategory
    IN IF item.present /\ item.value # <<>> THEN item.value ELSE All

\* Replacing the options of the <select> leaves its first option selected.
populateCategories(s) ==
    LET categories ==
            SortStrings({Get(s.quotes[i], "category").v : i \in DOMAIN s.quotes})
    IN [s EXCEPT !.categoryFilter =
            [options |-> <<All>> \o categories, value |-> All]]

\* categoryFilter.value = v: the first option with that value becomes the
\* selected one; with no such option none is selected and the value is ''.
SetSelectValue(s, v) ==
    [s EXCEPT !.categoryFilter.value =
        IF \E i \in DOMAIN s.categoryFilter.options :
               s.categoryFilter.options[i] = v
        THEN v
        ELSE <<>>]

\* One card: the quote's text, its author when truthy, and its category.
Card(quote) ==
    [text |-> Get(quote, "text"),
     author |-> IF Truthy(Get(quote, "author"))
                THEN Get(quote, "author")
                ELSE Undefined,
     category |-> Get(quote, "category")]

displayQuotes(s, filteredQuotes) ==
    [s EXCEPT !.quoteContainer =
        IF Len(filteredQuotes) = 0
        THEN [notice |-> NoCategoryQuotes, cards |-> <<>>]
        ELSE [notice |-> "",
              cards |-> [i \in 1..Len(filteredQuotes) |->
                            Card(filteredQuotes[i])]]]

filterQuotes(s) ==
    LET selectedCategory == s.categoryFilter.value
        InCategory(q) == StrictEq(Get(q, "category"), Str(selectedCategory))
        filtered == IF selectedCategory # All
                    THEN SelectSeq(s.quotes, InCategory)
                    ELSE s.quotes
    IN displayQuotes(saveLastFilter(s, selectedCategory), filtered)

\* randomIndex is Math.floor(Math.random() * quotes.length) + 1.
showRandomQuote(s, randomIndex) ==
    IF Len(s.quotes) = 0
    THEN [s EXCEPT !.quoteContainer = [notice |-> NoQuotes, cards |-> <<>>]]
    ELSE displayQuotes(s, <<s.quotes[randomIndex]>>)

\* Every call starts a timer that empties the status line 8 seconds later,
\* whatever the line shows by then.  The timers are never cancelled and all
\* do the same, so what the line can show depends only on whether one is
\* still to expire: one is from every call on, and the timers left once
\* the line is empty change nothing until the next call starts its own.
setSyncStatus(s, message, className) ==
    [s EXCEPT !.syncStatus = [textContent |-> message, className |-> className],
              !.timeoutPending = TRUE]

clearSyncStatusKeepClass(s) ==
    [s EXCEPT !.syncStatus.textContent = "", !.timeoutPending = FALSE]

\* The callback setSyncStatus hands to setTimeout.
clearSyncStatus(s) ==
    [s EXCEPT !.syncStatus = [textContent |-> "", className |-> ""],
              !.timeoutPending = FALSE]

addQuoteUntrimmed(s, textValue, categoryValue) ==
    LET pushed == [s EXCEPT !.quotes =
                       Append(@, [text |-> Str(textValue),
                                  category |-> Str(categoryValue)])]
    IN setSyncStatus(filterQuotes(populateCategories(saveQuotes(pushed))),
                     "Quote added locally.", "sync-warning")

\* textValue and categoryValue are the values of the two inputs of the form.
addQuote(s, textValue, categoryValue) ==
    LET text == Trim(textValue)
        category == IF Trim(categoryValue) # <<>>
                    THEN Trim(categoryValue)
                    ELSE General
    IN IF text = <<>>
       THEN [s EXCEPT !.alertMsg = EmptyTextAlert]
       ELSE LET pushed == [s EXCEPT !.quotes =
                               Append(@, [text |-> Str(text),
                                          category |-> Str(category)])]
                populated == populateCategories(saveQuotes(pushed))
                currentFilter == populated.categoryFilter.value
                shown == IF currentFilter = All \/ currentFilter = category
                         THEN filterQuotes(populated)
                         ELSE populated
            IN setSyncStatus(shown, "Quote added locally.", "sync-warning")

---------------------------------------------------------------------------
(* Server sync *)

\* data.quotes.map(q => ({text: q.quote, category: 'Server', author: q.author}))
MapServerQuotes(dataQuotes) ==
    [i \in 1..Len(dataQuotes) |->
        [text |-> Get(dataQuotes[i], "quote"),
         category |-> Str(Server),
         author |-> Get(dataQuotes[i], "author")]]

HasTextNever(list, sq) == FALSE

\* quotes.some(lq => lq.text === sq.text)
HasText(list, sq) ==
    \E i \in DOMAIN list : StrictEq(Get(list[i], "text"), Get(sq, "text"))

MergeAgainstSnapshot(list, serverQuotes) ==
    LET IsNew(sq) == ~HasText(list, sq)
    IN list \o SelectSeq(serverQuotes, IsNew)

\* serverQuotes.forEach(sq => { if (!quotes.some(...)) quotes.push(sq) })
RECURSIVE MergeQuotes(_, _)
MergeQuotes(list, serverQuotes) ==
    IF serverQuotes = <<>>
    THEN list
    ELSE MergeQuotes(IF ~HasText(list, Head(serverQuotes))
                     THEN Append(list, Head(serverQuotes))
                     ELSE list,
                     Tail(serverQuotes))

\* syncWithServer up to its await: the status line, then the request.
syncStart(s) == setSyncStatus(s, SyncingMessage, "sync-warning")

\* syncWithServer from the merge on, with the server's quotes in hand.
syncMerge(s, serverQuotes) ==
    LET merged == [s EXCEPT !.quotes = MergeQuotes(@, serverQuotes)]
        newAdded == Len(merged.quotes) - Len(s.quotes)
    IN IF newAdded > 0
       THEN setSyncStatus(filterQuotes(populateCategories(saveQuotes(merged))),
                          AddedMessage(newAdded), "sync-success")
       ELSE setSyncStatus(s, NoNewMessage, "sync-success")

\* The catch clause.  In the first script it is fetchQuotesFromServer's: it
\* returns [] and syncWithServer goes on with the merge.  In the second it
\* is syncWithServer's own and ends the cycle.
syncFailed(s, scriptNo, errMessage) ==
    LET failed == setSyncStatus(s, FailedMessage(errMessage), "sync-error")
    IN IF scriptNo = 1 THEN syncMerge(failed, <<>>) ELSE failed

---------------------------------------------------------------------------
(* JSON import and export *)

\* The text of the downloaded file.
exportQuotes(s) == JsonStringify(s.quotes)

ValidQuotesKeepingBlank(imported) ==
    LET Keep(q) == IsObject(q) /\ IsString(Get(q, "text"))
        kept == SelectSeq(imported, Keep)
        Quote(q) ==
            [text |-> Str(Trim(Get(q, "text").v)),
             category |-> IF Truthy(Get(q, "category"))
                             /\ IsString(Get(q, "category"))
                          THEN Str(Trim(Get(q, "category").v))
                          ELSE Str(General),
             author |-> IF Truthy(Get(q, "author"))
                        THEN Get(q, "author")
                        ELSE Undefined]
    IN [i \in 1..Len(kept) |-> Quote(kept[i])]

\* imported.filter(...).map(...)
ValidQuotes(imported) ==
    LET Keep(q) == /\ IsObject(q)
                   /\ IsString(Get(q, "text"))
                   /\ Trim(Get(q, "text").v) # <<>>
        kept == SelectSeq(imported, Keep)
        Quote(q) ==
            [text |-> Str(Trim(Get(q, "text").v)),
             category |-> IF Truthy(Get(q, "category"))
                             /\ IsString(Get(q, "category"))
                          THEN Str(Trim(Get(q, "category").v))
                          ELSE Str(General),
             author |-> IF Truthy(Get(q, "author"))
                        THEN Get(q, "author")
                        ELSE Undefined]
    IN [i \in 1..Len(kept) |-> Quote(kept[i])]

ImportedAlert(n) == "Imported " \o ToString(n) \o " local quote(s)!"

importReplacing(s, fileText) ==
    IF ~fileText.valid \/ ~fileText.array \/ ValidQuotes(fileText.items) = <<>>
    THEN [s EXCEPT !.alertMsg = "Invalid JSON file."]
    ELSE filterQuotes(populateCategories(saveQuotes(
             [s EXCEPT !.quotes = ValidQuotes(fileText.items)])))

\* reader.onload of importFromJsonFile; fileText is e.target.result.
importFromJsonFile(s, fileText) ==
    IF ~fileText.valid \/ ~fileText.array
    THEN [s EXCEPT !.alertMsg = "Invalid JSON file."]
    ELSE LET validQuotes == ValidQuotes(fileText.items)
         IN IF Len(validQuotes) = 0
            THEN [s EXCEPT !.alertMsg = "No valid quotes found."]
            ELSE LET pushed == [s EXCEPT !.quotes = @ \o validQuotes]
                     shown == filterQuotes(populateCategories(saveQuotes(pushed)))
                 IN [shown EXCEPT !.alertMsg = ImportedAlert(Len(validQuotes))]

---------------------------------------------------------------------------
(* Initialization *)

\* init, up to the await of its call of syncWithServer.
init(s) ==
    LET populated == populateCategories(loadQuotes(s))
        lastFilter == loadLastFilter(populated)
    IN syncStart(filterQuotes(SetSelectValue(populated, lastFilter)))

---------------------------------------------------------------------------
(* Inputs: what the user types and uploads, and what the server answers *)

SeqsUpTo(S, n) == UNION {[1..k -> S] : k \in 0..n}

\* The values of the two inputs of the add-quote form.
TextInputs == {<<>>, <<"\t", " ">>, <<" ", "a", " ">>, <<"A">>}
CategoryInputs == {<<>>, <<" ">>, <<"c", " ">>}

\* The items of data.quotes: `quote` may repeat, differ in case only, or be
\* missing, and so may `author`.
ServerItems ==
    { [quote |-> Str(<<"a">>), author |-> Str(<<"x">>)],
      [quote |-> Str(<<"a">>)],
      [quote |-> Str(<<"A">>), author |-> Str(<<"x">>)],
      [author |-> Str(<<"x">>)] }

Responses == SeqsUpTo(ServerItems, MaxResponse)

\* err.message of a rejected fetch, of the script's own Error for a response
\* that is not ok, and of a body that is no JSON or has no `quotes` array.
FetchRejection == "Failed to fetch"
NotOkMessage == "Network error"
JsonRejection == "Unexpected end of JSON input"

\* The entries of an uploaded array.
FileEntries ==
    { Null,
      [text |-> NumberOne],
      [text |-> Str(<<" ">>), category |-> Str(<<"c">>)],
      [text |-> Str(<<" ", "a">>)],
      [text |-> Str(<<"b">>), category |-> Str(<<" ">>), author |-> Str(<<"x">>)] }

Files ==
    {InvalidJson, NonArrayJson}
        \cup {ArrayJson(items) : items \in SeqsUpTo(FileEntries, MaxFile)}

\* The few inputs of the specification that interleaves every operation:
\* a blank text and one to trim, a blank category, responses that repeat a
\* local text and differ from it in case, a file of one valid entry (with a
\* blank category) and one invalid, and the second quote as the random one.
FewTexts == {<<" ">>, <<" ", "a">>}
FewCategories == {<<" ">>}
FewResponses ==
    { <<>>,
      << [quote |-> Str(<<"a">>), author |-> Str(<<"x">>)] >>,
      << [quote |-> Str(<<"A">>), author |-> Str(<<"x">>)],
         [quote |-> Str(<<"a">>), author |-> Str(<<"x">>)] >> }
FewFiles ==
    { ArrayJson(<< [text |-> Str(<<"b">>), category |-> Str(<<" ">>)],
                   [category |-> Str(<<"c">>)] >>) }
FewIndexes == {2}

---------------------------------------------------------------------------
(* The state machine *)

\* The page as r.
Page(r) ==
    /\ Len(r.quotes) <= MaxQuotes
    /\ quotes' = r.quotes
    /\ localStorage' = r.localStorage
    /\ categoryFilter' = r.categoryFilter
    /\ quoteContainer' = r.quoteContainer
    /\ syncStatus' = r.syncStatus
    /\ timeoutPending' = r.timeoutPending
    /\ alertMsg' = r.alertMsg

\* The state a handler leaves.
Leave(r) ==
    /\ Page(r)
    /\ mutated' = (mutated \/ Len(r.quotes) > Len(quotes))

Init ==
    /\ script \in {1, 2}
    /\ loaded = FALSE
    /\ quotes = <<>>
    /\ localStorage = EmptyStorage
    /\ categoryFilter = FreshPage(EmptyStorage).categoryFilter
    /\ quoteContainer = FreshPage(EmptyStorage).quoteContainer
    /\ syncStatus = FreshPage(EmptyStorage).syncStatus
    /\ timeoutPending = FALSE
    /\ alertMsg = ""
    /\ fetching = 0
    /\ parsing = 0
    /\ mutated = FALSE
    /\ mergeInserted = {}

\* The page is loaded, or loaded again: the globals, the DOM, the timers and
\* the pending requests of the previous page are gone, local storage stays.
DOMContentLoaded ==
    \E r \in {init(FreshPage(localStorage))} :
        /\ Page(r)
        /\ loaded' = TRUE
        /\ fetching' = 1
        /\ parsing' = 0
        /\ mutated' = FALSE
        /\ UNCHANGED <<script, mergeInserted>>

\* The user picks option i of the <select>.
CategoryChange(i) ==
    /\ loaded
    /\ i \in DOMAIN categoryFilter.options
    /\ \E r \in {filterQuotes([State EXCEPT !.categoryFilter.value =
                                                categoryFilter.options[i]])} :
           Leave(r)
    /\ UNCHANGED <<script, loaded, fetching, parsing, mergeInserted>>

NewQuoteClick(randomIndex) ==
    /\ loaded
    /\ randomIndex \in 1..Len(quotes)
    /\ \E r \in {showRandomQuote(State, randomIndex)} : Leave(r)
    /\ UNCHANGED <<script, loaded, fetching, parsing, mergeInserted>>

AddQuoteClick(textValue, categoryValue) ==
    /\ loaded
    /\ UNCHANGED <<script, loaded, fetching, parsing, mergeInserted>>
    /\ \E r \in {addQuote(State, textValue, categoryValue)} : Leave(r)

\* exportQuotes: an alert for an empty list, else the download, which
\* changes nothing on the page.
ExportClick ==
    /\ loaded
    /\ \E r \in {IF Len(quotes) = 0
                 THEN [State EXCEPT !.alertMsg = "No quotes to export."]
                 ELSE State} :
           Leave(r)
    /\ UNCHANGED <<script, loaded, fetching, parsing, mergeInserted>>

\* The FileReader of importFromJsonFile has read the chosen file.
ImportOnload(fileText) ==
    /\ loaded
    /\ UNCHANGED <<script, loaded, fetching, parsing, mergeInserted>>
    /\ \E r \in {importFromJsonFile(State, fileText)} : Leave(r)

\* setInterval(syncWithServer, 30000)
TimerSync ==
    /\ loaded
    /\ fetching + parsing < MaxInFlight
    /\ \E r \in {syncStart(State)} : Leave(r)
    /\ fetching' = fetching + 1
    /\ UNCHANGED <<script, loaded, parsing, mergeInserted>>

\* manualSyncBtn.addEventListener('click', syncWithServer)
ManualSync ==
    /\ loaded
    /\ fetching + parsing < MaxInFlight
    /\ \E r \in {syncStart(State)} : Leave(r)
    /\ fetching' = fetching + 1
    /\ UNCHANGED <<script, loaded, parsing, mergeInserted>>

\* fetch rejects: a network error.
FetchRejected ==
    /\ fetching > 0
    /\ \E r \in {syncFailed(State, script, FetchRejection)} : Leave(r)
    /\ fetching' = fetching - 1
    /\ UNCHANGED <<script, loaded, parsing, mergeInserted>>

\* fetch resolves with a response that is not ok: the script throws.
FetchNotOk ==
    /\ fetching > 0
    /\ \E r \in {syncFailed(State, script, NotOkMessage)} : Leave(r)
    /\ fetching' = fetching - 1
    /\ UNCHANGED <<script, loaded, parsing, mergeInserted>>

\* fetch resolves with an ok response: the cycle awaits response.json().
FetchOk ==
    /\ fetching > 0
    /\ Leave(State)
    /\ fetching' = fetching - 1
    /\ parsing' = parsing + 1
    /\ UNCHANGED <<script, loaded, mergeInserted>>

\* response.json() rejects, or data.quotes.map throws.
JsonRejected ==
    /\ parsing > 0
    /\ \E r \in {syncFailed(State, script, JsonRejection)} : Leave(r)
    /\ parsing' = parsing - 1
    /\ UNCHANGED <<script, loaded, fetching, mergeInserted>>

\* response.json() resolves with data whose quotes are dataQuotes.
JsonResolved(dataQuotes) ==
    /\ parsing > 0
    /\ parsing' = parsing - 1
    /\ UNCHANGED <<script, loaded, fetching>>
    /\ \E r \in {syncMerge(State, MapServerQuotes(dataQuotes))} :
           /\ Leave(r)
           /\ mergeInserted' =
                  mergeInserted \cup (Len(quotes) + 1 .. Len(r.quotes))

\* A timer of setSyncStatus expires.
StatusTimeout ==
    /\ timeoutPending
    /\ \E r \in {clearSyncStatus(State)} : Leave(r)
    /\ UNCHANGED <<script, loaded, fetching, parsing, mergeInserted>>

\* Every operation, interleaved, on few inputs.
Next ==
    \/ DOMContentLoaded
    \/ \E i \in 1..(MaxQuotes + 1) : CategoryChange(i)
    \/ \E i \in FewIndexes : NewQuoteClick(i)
    \/ \E t \in FewTexts, c \in FewCategories : AddQuoteClick(t, c)
    \/ ExportClick
    \/ \E f \in FewFiles : ImportOnload(f)
    \/ TimerSync
    \/ ManualSync
    \/ FetchRejected
    \/ FetchNotOk
    \/ FetchOk
    \/ JsonRejected
    \/ \E d \in FewResponses : JsonResolved(d)
    \/ StatusTimeout

Spec == Init /\ [][Next]_vars

\* The sync cycle on every response, with local quotes whose text a remote
\* one repeats or differs from in case only.
LocalTexts == {<<"a">>, <<"A">>}

NextSync ==
    \/ DOMContentLoaded
    \/ \E t \in LocalTexts, c \in FewCategories : AddQuoteClick(t, c)
    \/ TimerSync
    \/ ManualSync
    \/ FetchRejected
    \/ FetchNotOk
    \/ FetchOk
    \/ JsonRejected
    \/ \E d \in Responses : JsonResolved(d)

SpecSync == Init /\ [][NextSync]_vars

\* Import and export on every file.
NextImport ==
    \/ DOMContentLoaded
    \/ \E i \in 1..(MaxQuotes + 1) : CategoryChange(i)
    \/ ExportClick
    \/ \E f \in Files : ImportOnload(f)

SpecImport == Init /\ [][NextImport]_vars

\* The add-quote form on every input, with any filter or a random quote on
\* the page.
NextAdd ==
    \/ DOMContentLoaded
    \/ \E i \in 1..(MaxQuotes + 1) : CategoryChange(i)
    \/ \E i \in FewIndexes : NewQuoteClick(i)
    \/ \E t \in TextInputs, c \in CategoryInputs : AddQuoteClick(t, c)

SpecAdd == Init /\ [][NextAdd]_vars

---------------------------------------------------------------------------
(* Properties *)

TextOf(q) == Get(q, "text")

IsPrefix(a, b) == Len(a) <= Len(b) /\ SubSeq(b, 1, Len(a)) = a

\* Two records a reader cannot tell apart: every property reads the same.
\* JSON has no undefined, so a property set to undefined and a missing one
\* are the same record here.
SameQuote(a, b) ==
    \A k \in {"text", "category", "author"} : Get(a, k) = Get(b, k)

SameList(a, b) ==
    Len(a) = Len(b) /\ \A i \in 1..Len(a) : SameQuote(a[i], b[i])

Blank(str) == \A i \in DOMAIN str : IsWhitespace(str[i])

\* t is raw without its leading and trailing whitespace.
Stripped(t, raw) ==
    IF Blank(raw)
    THEN t = <<>>
    ELSE \E i, j \in DOMAIN raw :
             /\ i <= j
             /\ t = SubSeq(raw, i, j)
             /\ ~IsWhitespace(raw[i])
             /\ ~IsWhitespace(raw[j])
             /\ \A k \in DOMAIN raw : (k < i \/ k > j) => IsWhitespace(raw[k])

\* The k-th smallest member of a set of numbers.
RECURSIVE Nth(_, _)
Nth(S, k) ==
    LET m == CHOOSE x \in S : \A y \in S : x <= y
    IN IF k = 1 THEN m ELSE Nth(S \ {m}, k - 1)

\* seq at the positions in I, in order.
Pick(seq, I) ==
    LET upTo[k \in 0..Len(seq)] ==
            IF k = 0 THEN <<>>
            ELSE IF k \in I THEN Append(upTo[k - 1], seq[k])
            ELSE upTo[k - 1]
    IN upTo[Len(seq)]

StoredQuotes == localStorage.dynamicQuotes

\* C1: a sync cycle that receives its response, whatever the response and
\* whatever the repository by then, appends a remote item if and only if no
\* record of the repository has exactly its text when it is checked, that
\* is, neither a record that was there before nor an earlier item of the
\* response has it; the appended items keep their remote order and the
\* records that were there are left as they were.
C1_MergeByText ==
    parsing > 0 =>
        \A d \in Responses :
            LET remote == MapServerQuotes(d)
                new == {i \in DOMAIN remote :
                          /\ \A k \in DOMAIN quotes :
                                 TextOf(quotes[k]) # TextOf(remote[i])
                          /\ \A j \in 1..(i - 1) :
                                 TextOf(remote[j]) # TextOf(remote[i])}
            IN syncMerge(State, remote).quotes = quotes \o Pick(remote, new)

\* A cycle has appended "A" beside a client-authored "a".
C1_Witness ==
    /\ syncStatus.textContent = AddedMessage(1)
    /\ \E i \in DOMAIN quotes \ mergeInserted, j \in mergeInserted :
           /\ TextOf(quotes[i]) = Str(<<"a">>)
           /\ TextOf(quotes[j]) = Str(<<"A">>)

\* C2: no two records that the merge step inserted have the same text,
\* whatever the interleaving of timer syncs, manual syncs, adds and imports.
C2_MergedTextsDistinct ==
    \A i \in mergeInserted, j \in mergeInserted :
        i # j => /\ i \in DOMAIN quotes
                 /\ j \in DOMAIN quotes
                 /\ TextOf(quotes[i]) # TextOf(quotes[j])

\* The merge step has inserted two records.
C2_Witness == loaded /\ Cardinality(mergeInserted) >= 2

\* C3: a cycle whose fetch fails sets the failure status and stops: no merge,
\* no persist, no second fetch, and the failure message is the status it
\* leaves.
C3_FailedFetchAborts ==
    [][(FetchRejected \/ FetchNotOk) =>
          /\ quotes' = quotes
          /\ localStorage' = localStorage
          /\ fetching' = fetching - 1
          /\ parsing' = parsing
          /\ syncStatus'.className = "sync-error"
          /\ syncStatus'.textContent
                 \in {FailedMessage(FetchRejection), FailedMessage(NotOkMessage)}]_vars

\* C4: between handlers, once the repository has been mutated since it was
\* loaded, the list stored under the quotes key is the repository, record for
\* record and in order, and loading the page again gives the same repository.
C4_StorageMirrorsQuotes ==
    (loaded /\ mutated) =>
        /\ StoredQuotes.present
        /\ StoredQuotes.text.valid
        /\ SameList(StoredQuotes.text.items, quotes)
        /\ SameList(loadQuotes(FreshPage(localStorage)).quotes, quotes)

\* The repository holds a merged record and one with `author: undefined`,
\* which the stored text leaves out.
C4_Witness ==
    /\ loaded
    /\ mutated
    /\ mergeInserted # {}
    /\ \E i \in DOMAIN quotes :
           "author" \in DOMAIN quotes[i] /\ quotes[i]["author"] = Undefined

\* C5: with the filter on a category c of a record of the repository, loading
\* the page again sets the filter to c, shows exactly the records of category
\* c and leaves c as the persisted filter.
C5_FilterRestored ==
    [][(/\ loaded
        /\ \E i \in DOMAIN quotes :
               Get(quotes[i], "category") = Str(categoryFilter.value)
        /\ DOMContentLoaded) =>
          LET c == categoryFilter.value
              OfCategory(q) == Get(q, "category") = Str(c)
              shown == SelectSeq(quotes', OfCategory)
          IN /\ categoryFilter'.value = c
             /\ quoteContainer'.cards = [i \in 1..Len(shown) |-> Card(shown[i])]
             /\ localStorage'.lastSelectedCategory = [present |-> TRUE, value |-> c]]_vars

\* The {text, category} pairs of a list.
Pairs(list) ==
    {<<Get(list[i], "text"), Get(list[i], "category")>> : i \in DOMAIN list}

\* C6: the records import accepts from the file export writes have the same
\* {text, category} pairs as the repository.
C6_ExportImportRoundTrip ==
    (loaded /\ Len(quotes) > 0) =>
        LET fileText == exportQuotes(State)
        IN /\ fileText.valid
           /\ fileText.array
           /\ Pairs(ValidQuotes(fileText.items)) = Pairs(quotes)

\* An entry import accepts: an object whose text is a string with a
\* character that is not whitespace.
Accepted(e) ==
    /\ IsObject(e)
    /\ "text" \in DOMAIN e
    /\ e["text"].t = "string"
    /\ ~Blank(e["text"].v)

\* C7: importing a file, whatever the file and whatever the repository,
\* appends one record per entry whose text is a non-blank string, in input
\* order, and none for any other entry; a record whose entry had no category
\* gets "General"; the records that were there are unchanged and the result
\* is persisted.  A file that is no array appends nothing.
C7_ImportAppendsValid ==
    loaded =>
        \A f \in Files :
            LET after == importFromJsonFile(State, f)
                stored == after.localStorage.dynamicQuotes
                entries == IF f.valid /\ f.array THEN f.items ELSE <<>>
                ok == {i \in DOMAIN entries : Accepted(entries[i])}
                added == SubSeq(after.quotes, Len(quotes) + 1, Len(after.quotes))
            IN /\ IsPrefix(quotes, after.quotes)
               /\ Len(added) = Cardinality(ok)
               /\ \A k \in 1..Len(added) :
                      LET e == entries[Nth(ok, k)]
                      IN /\ TextOf(added[k]).t = "string"
                         /\ Stripped(TextOf(added[k]).v, e["text"].v)
                         /\ "category" \notin DOMAIN e =>
                                Get(added[k], "category") = Str(General)
               /\ IF ok = {}
                  THEN after.localStorage = localStorage
                  ELSE /\ stored.present
                       /\ SameList(stored.text.items, after.quotes)

\* A file with one accepted entry, which had no category, has been imported.
C7_Witness ==
    /\ alertMsg = ImportedAlert(1)
    /\ Len(quotes) = Len(getDefaultQuotes) + 1
    /\ Get(quotes[Len(quotes)], "category") = Str(General)
    /\ TextOf(quotes[Len(quotes)]) = Str(<<"a">>)

\* C8: addQuote with a blank text changes neither the repository, nor the
\* storage, nor the category options, nor the list shown, and raises the
\* empty-text alert; with any other text it appends exactly the record of the
\* trimmed text and the trimmed category, "General" for a blank category.
C8_AddQuote ==
    [][\A t \in TextInputs, c \in CategoryInputs :
         AddQuoteClick(t, c) =>
           IF Blank(t)
           THEN /\ quotes' = quotes
                /\ localStorage' = localStorage
                /\ categoryFilter' = categoryFilter
                /\ quoteContainer' = quoteContainer
                /\ alertMsg' = EmptyTextAlert
           ELSE LET added == quotes'[Len(quotes')]
                IN /\ Len(quotes') = Len(quotes) + 1
                   /\ IsPrefix(quotes, quotes')
                   /\ DOMAIN added = {"text", "category"}
                   /\ added["text"].t = "string"
                   /\ Stripped(added["text"].v, t)
                   /\ added["category"].t = "string"
                   /\ IF Blank(c)
                      THEN added["category"].v = General
                      ELSE Stripped(added["category"].v, c)]_vars

\* A blank add after one that appended: the alert is up and the repository
\* is what the first add left.
C8_Witness ==
    /\ alertMsg = EmptyTextAlert
    /\ mutated
    /\ Len(quotes) = Len(getDefaultQuotes) + 1

\* The operations that set a status.
SetsStatus ==
    \/ DOMContentLoaded
    \/ TimerSync
    \/ ManualSync
    \/ FetchRejected
    \/ FetchNotOk
    \/ JsonRejected
    \/ \E d \in FewResponses : JsonResolved(d)
    \/ \E t \in FewTexts, c \in FewCategories :
           AddQuoteClick(t, c) /\ ~Blank(t)

\* A cycle's fetch is pending and the status line shows its message.
Hung == loaded /\ fetching > 0 /\ syncStatus.textContent = SyncingMessage

\* C9 as stated: while a fetch hangs and no other operation sets a status,
\* the status line keeps showing 'Syncing with server...'.
C9_StatusStuck ==
    [][(Hung /\ syncStatus' # syncStatus) => SetsStatus]_vars

\* C9 as amended: while a fetch hangs and no other operation sets a status,
\* the status line keeps showing 'Syncing with server...' until a timer of
\* setSyncStatus expires, which empties it.
C9_StatusStuckUntilTimeout ==
    [][(Hung /\ syncStatus' # syncStatus) =>
          \/ /\ syncStatus' = [textContent |-> "", className |-> ""]
             /\ StatusTimeout
          \/ SetsStatus]_vars

\* The timer has emptied the status line while the first fetch still hangs.
C9_Witness ==
    /\ loaded
    /\ fetching = 1
    /\ parsing = 0
    /\ ~mutated
    /\ syncStatus.textContent = ""

\* C10: after init, every step of the session leaves the repository a prefix
\* of what it becomes: no record is removed, reordered or modified.
C10_AppendOnly ==
    [][(loaded /\ ~IsPrefix(quotes, quotes')) => DOMContentLoaded]_vars

\* The repository has grown to the bound by an add or import and a merge.
C10_Witness ==
    /\ loaded
    /\ mutated
    /\ Len(quotes) = MaxQuotes
    /\ mergeInserted # {}
    /\ DOMAIN quotes \ mergeInserted # DOMAIN getDefaultQuotes

====
